---- MODULE Spec2Model ----
(***************************************************************************)
(* Model of the Creole text-to-speech service (src/main.py): the voice     *)
(* registry, the synthesize / batch / preview / voice-lookup handlers, the *)
(* mock audio generator and the WAV container it writes.                   *)
(*                                                                         *)
(* Representation choices:                                                 *)
(*  - speed, pitch and volume are floats in the source; here they are      *)
(*    integers in hundredths (speed 0.5 is 50, volume 0.1 is 10).           *)
(*  - a string built by an f-string is the sequence of its pieces.         *)
(*  - the PCM payload has at least 22050 samples; it is kept as the        *)
(*    parameters of the loop that produced it and read sample by sample    *)
(*    with Sample / WavByte instead of being stored as a sequence.         *)
(*  - math.sin is Bhaskara's rational approximation on whole degrees, in    *)
(*    thousandths; the float product is fixed-point arithmetic.            *)
(*  - a float quotient a / b is the fraction a/b in lowest terms.          *)
(***************************************************************************)
EXTENDS Integers, Sequences, FiniteSets, TLC

(* ---------------------------- bounds ---------------------------------- *)

\* number of callers whose requests can be in flight at once
MaxInFlight == 2
\* timestamps the wall clock can show when a response is built: 0..MaxClock
MaxClock == 1
\* generate_audio's loop is examined for a packing error on its first
\* ScanWindow iterations: more than a quarter period (at most 13 samples)
\* of every tone of the requests below whose volume can overflow a short
ScanWindow == 16

Callers == 1..MaxInFlight
Times == 0..MaxClock

(* ------------------------ program constants --------------------------- *)

sample_rate == 22050
MaxBatch == 10
DurationDivisor == 44100
BaseFrequency == 440
FrequencySpread == 200
FullScale == 32767

(* --------------------------- arithmetic ------------------------------- *)

Max(a, b) == IF a >= b THEN a ELSE b
Min(a, b) == IF a <= b THEN a ELSE b
Abs(a) == IF a < 0 THEN 0 - a ELSE a

RECURSIVE GCD(_, _)
GCD(a, b) == IF b = 0 THEN a ELSE GCD(b, a % b)

\* the float a / b of two non-negative integers, b > 0
FloatDiv(a, b) == [num |-> a \div GCD(a, b), den |-> b \div GCD(a, b)]

\* str(x) of a float
Str(x) == [str_of |-> x]

\* (a * b) % m without leaving 32 bits, for 0 <= a < m, b >= 0
RECURSIVE MulMod(_, _, _)
MulMod(a, b, m) ==
    IF b = 0 THEN 0
    ELSE LET h == MulMod(a, b \div 2, m)
             d == (2 * h) % m
         IN IF b % 2 = 1 THEN (d + a) % m ELSE d

(* -------------------------- voice registry ---------------------------- *)

Voice(id, name, language, gender, description) ==
    [id |-> id, name |-> name, language |-> language, gender |-> gender,
     age |-> "adult", description |-> description]

RegistryTable ==
    << Voice("default", "Default Voice", "ht", "neutral", "Standard Haitian Creole voice"),
       Voice("marie", "Marie", "ht", "female", "Friendly female Haitian Creole voice"),
       Voice("jean", "Jean", "ht", "male", "Clear male Haitian Creole voice"),
       Voice("english-default", "English Default", "en", "neutral", "Standard English voice"),
       Voice("french-default", "French Default", "fr", "neutral", "Standard French voice") >>

\* list comprehension [v for v in voices if v.language == language]
RECURSIVE FilterLanguage(_, _)
FilterLanguage(voices, language) ==
    IF voices = <<>> THEN <<>>
    ELSE IF Head(voices).language = language
         THEN <<Head(voices)>> \o FilterLanguage(Tail(voices), language)
         ELSE FilterLanguage(Tail(voices), language)

\* the codes the languages endpoint advertises
supported_languages == <<"ht", "en", "fr", "es">>

(* ---------------------------- exceptions ------------------------------ *)

NoExc == [type |-> "none", status_code |-> 0, detail |-> <<>>]
HTTPException(status_code, detail) ==
    [type |-> "HTTPException", status_code |-> status_code, detail |-> detail]
ZeroDivisionError ==
    [type |-> "ZeroDivisionError", status_code |-> 0,
     detail |-> <<"float division by zero">>]
StructError ==
    [type |-> "struct.error", status_code |-> 0,
     detail |-> <<"short format requires -32768 <= number <= 32767">>]

\* str(e): Starlette renders an HTTPException as "<status>: <detail>"
StrExc(e) ==
    IF e.type = "HTTPException"
    THEN <<ToString(e.status_code), ": ">> \o e.detail
    ELSE e.detail

(* ----------------------------- requests ------------------------------- *)

Texts == {"Bonjou", "Bonjou, koman ou ye?"}
HashValues == {-3, 205}

Request(endpoint, text, texts, language, voice, speed, pitch, volume) ==
    [endpoint |-> endpoint, text |-> text, texts |-> texts,
     language |-> language, voice |-> voice,
     speed |-> speed, pitch |-> pitch, volume |-> volume]

VoicePairs ==
    { <<"ht", "marie">>, <<"en", "marie">>, <<"es", "default">>, <<"xx", "anything">> }

\* <<speed, pitch, volume>> in hundredths
ParamSets ==
    { <<100, 100, 100>>, <<50, 50, 10>>, <<200, 200, 100>>,
      <<49, 100, 100>>, <<201, 100, 100>>, <<100, 49, 100>>, <<100, 201, 100>>,
      <<100, 100, 9>>, <<100, 100, 101>>, <<0, 100, 100>>, <<100, 100, 500>>,
      <<49, 201, 9>>, <<100, 201, 9>> }

TenTexts == [k \in 1..10 |-> IF k % 2 = 1 THEN "Bonjou" ELSE "Bonjou, koman ou ye?"]

TextLists ==
    { <<>>, <<"Bonjou">>, <<"Bonjou, koman ou ye?", "Bonjou", "Bonjou">>,
      TenTexts, TenTexts \o <<"Bonjou">> }

SynthRequests ==
    { Request("synthesize", t, <<>>, lv[1], lv[2], p[1], p[2], p[3]) :
        t \in Texts, lv \in VoicePairs, p \in ParamSets }
BatchRequests ==
    { Request("batch", "", ts, lv[1], lv[2], p[1], p[2], p[3]) :
        ts \in TextLists, lv \in VoicePairs, p \in ParamSets }
PreviewRequests ==
    { Request("preview", t, <<>>, lv[1], lv[2], 100, 100, 80) :
        t \in Texts, lv \in VoicePairs }
LookupRequests ==
    { Request("get_voice", "", <<>>, lv[1], lv[2], 100, 100, 100) : lv \in VoicePairs }
    \cup
    { Request("get_voices_by_language", "", <<>>, l, "", 100, 100, 100) :
        l \in {"ht", "en", "es", "xx"} }

Requests == SynthRequests \cup BatchRequests \cup PreviewRequests \cup LookupRequests

\* the requests of the interleaving specification
ConcRequests ==
    { Request("synthesize", "Bonjou", <<>>, "ht", "marie", 100, 100, 100),
      Request("synthesize", "Bonjou", <<>>, "ht", "marie", 49, 100, 100),
      Request("batch", "", <<"Bonjou", "Bonjou, koman ou ye?">>, "ht", "marie", 100, 100, 100),
      Request("preview", "Bonjou", <<>>, "ht", "marie", 100, 100, 80) }

(* --------------------------- generate_audio --------------------------- *)

\* duration = max(1.0, len(text) * 0.1), in tenths of a second
DurationTenths(text) == Max(10, Len(text))

\* the loop bound with the duration divided by the speed
SampleCount_BySpeed(text, speed) ==
    IF speed = 0 THEN 0 ELSE (sample_rate * DurationTenths(text) * 10) \div speed

\* int(sample_rate * duration): the number of loop iterations
SampleCount(text, speed) == (sample_rate * DurationTenths(text)) \div 10

\* frequency = 440 + (hash(text) % 200); h is the process's string hash
Frequency(h, text) == BaseFrequency + (h[text] % FrequencySpread)

\* math.sin of a whole number of degrees in 0..359, in thousandths
SinMilli(deg) ==
    LET d == IF deg < 180 THEN deg ELSE deg - 180
        v == (4000 * d * (180 - d)) \div (40500 - d * (180 - d))
    IN IF deg < 180 THEN v ELSE 0 - v

\* the arguments and loop bound that determine every sample of one call
Pcm(count, frequency, pitch, speed, volume) ==
    [count |-> count, frequency |-> frequency, pitch |-> pitch,
     speed |-> speed, volume |-> volume]

\* int(sample * 32767) for loop index i, speed > 0:
\* sample = 0.3 * volume * sin(2 pi * frequency * pitch * i / sample_rate / speed)
Sample(p, i) ==
    LET m == sample_rate * p.speed
        turns == MulMod((p.frequency * p.pitch) % m, i, m)
        s == SinMilli((turns * 360) \div m)
        a == 3 * p.volume * Abs(s)
        mag == ((a \div 1000) * FullScale + ((a % 1000) * FullScale) \div 1000) \div 1000
    IN IF s < 0 THEN 0 - mag ELSE mag

\* struct.pack('<h', v) accepts exactly the signed 16-bit values
Packable(v) == v >= 0 - 32768 /\ v <= 32767

\* struct.pack('>h', v): high byte first
PackShort_BigEndian(v) == LET u == v % 65536 IN << u \div 256, u % 256 >>

\* struct.pack('<h', v): two's complement, low byte first
PackShort(v) == LET u == v % 65536 IN << u % 256, u \div 256 >>

U16LE(n) == << n % 256, (n \div 256) % 256 >>
U32LE(n) == << n % 256, (n \div 256) % 256, (n \div 65536) % 256, (n \div 16777216) % 256 >>

\* the header wave.Wave_write leaves in the buffer after close()
WavHeader(nchannels, sampwidth, framerate, nframes) ==
    LET datalength == nframes * nchannels * sampwidth
    IN << 82, 73, 70, 70 >> \o U32LE(36 + datalength)
       \o << 87, 65, 86, 69 >> \o << 102, 109, 116, 32 >>
       \o U32LE(16) \o U16LE(1) \o U16LE(nchannels) \o U32LE(framerate)
       \o U32LE(nchannels * framerate * sampwidth)
       \o U16LE(nchannels * sampwidth) \o U16LE(sampwidth * 8)
       \o << 100, 97, 116, 97 >> \o U32LE(datalength)

NoWav == [header |-> <<>>, pcm |-> Pcm(0, 0, 0, 0, 0)]

\* the arguments of one generate_audio call
Call(text, language, voice, speed, pitch, volume) ==
    [text |-> text, language |-> language, voice |-> voice,
     speed |-> speed, pitch |-> pitch, volume |-> volume]
NoCall == Call("", "", "", 0, 0, 0)

\* the body of generate_audio after the sleep: the exception the loop raises,
\* or the bytes of the WAV file
generate_audio(c, h) ==
    LET count == SampleCount(c.text, c.speed)
        p == Pcm(count, Frequency(h, c.text), c.pitch, c.speed, c.volume)
        scan == 0 .. (Min(count, ScanWindow) - 1)
    IN IF count > 0 /\ c.speed = 0
       THEN [exc |-> ZeroDivisionError, wav |-> NoWav]
       ELSE IF \E i \in scan : ~Packable(Sample(p, i))
       THEN [exc |-> StructError, wav |-> NoWav]
       ELSE [exc |-> NoExc,
             wav |-> [header |-> WavHeader(1, 2, sample_rate, count), pcm |-> p]]

\* len(audio_data)
WavLen(wav) == Len(wav.header) + 2 * wav.pcm.count

\* audio_data[k], k counted from 0
WavByte(wav, k) ==
    IF k < Len(wav.header) THEN wav.header[k + 1]
    ELSE PackShort(Sample(wav.pcm, (k - Len(wav.header)) \div 2))[((k - Len(wav.header)) % 2) + 1]

(* ----------------------------- responses ------------------------------ *)

NoHeaders == [none |-> TRUE]
Response(status_code, media_type, headers, content) ==
    [status_code |-> status_code, media_type |-> media_type,
     headers |-> headers, content |-> content]
NoResp == Response(0, "", NoHeaders, [none |-> TRUE])

\* http_exception_handler: the envelope every HTTPException is rendered as
http_exception_handler(exc, t) ==
    Response(exc.status_code, "application/json", NoHeaders,
             [error |-> exc.detail, status_code |-> exc.status_code, timestamp |-> t])

StreamingResponse(wav, headers) ==
    Response(200, "audio/wav", headers, [audio |-> wav])

JSONBody(content) == Response(200, "application/json", NoHeaders, content)

(* -------------------------- handler frames ---------------------------- *)

\* a handler's position and locals: "sleeping" is the await inside
\* generate_audio, "done" is the response in the caller's hands
Frame(pc, call, idx, files, resp) ==
    [pc |-> pc, call |-> call, idx |-> idx, files |-> files, resp |-> resp]

Reply(response) == Frame("done", NoCall, 0, <<>>, response)
Raise(exc, t) == Reply(http_exception_handler(exc, t))
Await(call, idx, files) == Frame("sleeping", call, idx, files, NoResp)

(* ----------------------------- synthesize ----------------------------- *)

InRange(lo, x, hi) == lo <= x /\ x <= hi

\* the validation with the range ends excluded
SynthValidate_Exclusive(q, voices) ==
    LET language_voices == FilterLanguage(voices, q.language)
        valid_voices == { language_voices[k].id : k \in DOMAIN language_voices }
    IN IF q.voice \notin valid_voices
       THEN HTTPException(400, << "Voice '", q.voice,
                                  "' not available for language '", q.language, "'" >>)
       ELSE IF ~(50 < q.speed /\ q.speed < 200)
       THEN HTTPException(400, << "Speed must be between 0.5 and 2.0" >>)
       ELSE IF ~(50 < q.pitch /\ q.pitch < 200)
       THEN HTTPException(400, << "Pitch must be between 0.5 and 2.0" >>)
       ELSE IF ~(10 < q.volume /\ q.volume < 100)
       THEN HTTPException(400, << "Volume must be between 0.1 and 1.0" >>)
       ELSE NoExc

\* lines 177-191: the exception the validation raises, NoExc if none
SynthValidate(q, voices) ==
    LET language_voices == FilterLanguage(voices, q.language)
        valid_voices == { language_voices[k].id : k \in DOMAIN language_voices }
    IN IF q.voice \notin valid_voices
       THEN HTTPException(400, << "Voice '", q.voice,
                                  "' not available for language '", q.language, "'" >>)
       ELSE IF ~InRange(50, q.speed, 200)
       THEN HTTPException(400, << "Speed must be between 0.5 and 2.0" >>)
       ELSE IF ~InRange(50, q.pitch, 200)
       THEN HTTPException(400, << "Pitch must be between 0.5 and 2.0" >>)
       ELSE IF ~InRange(10, q.volume, 100)
       THEN HTTPException(400, << "Volume must be between 0.1 and 1.0" >>)
       ELSE NoExc

\* lines 215-217: except Exception catches whatever the try block raised,
\* the HTTPExceptions of the validation included
SynthExcept(e) == HTTPException(500, << "Synthesis failed: " >> \o StrExc(e))

SynthEnter(q, voices, t) ==
    LET e == SynthValidate(q, voices)
    IN IF e # NoExc THEN Raise(SynthExcept(e), t)
       ELSE Await(Call(q.text, q.language, q.voice, q.speed, q.pitch, q.volume), 0, <<>>)

SynthResume(q, call, h, t) ==
    LET out == generate_audio(call, h)
    IN IF out.exc # NoExc THEN Raise(SynthExcept(out.exc), t)
       ELSE Reply(StreamingResponse(out.wav,
                [content_disposition |-> [prefix |-> "attachment; filename=synthesis_",
                                          time |-> t, suffix |-> ".wav"],
                 x_duration |-> Str(FloatDiv(WavLen(out.wav), DurationDivisor)),
                 x_language |-> q.language,
                 x_voice |-> q.voice]))

(* -------------------------- synthesize_batch -------------------------- *)

BatchExcept(e) == HTTPException(500, << "Batch synthesis failed: " >> \o StrExc(e))

\* the metadata with positions counted from 1
BatchEntry_OneBased(i, text, wav) ==
    [index |-> i + 1, text |-> text, audio_size |-> WavLen(wav),
     duration |-> FloatDiv(WavLen(wav), DurationDivisor)]

\* lines 241-246: the metadata appended for the text at 0-based position i
BatchEntry(i, text, wav) ==
    [index |-> i, text |-> text, audio_size |-> WavLen(wav),
     duration |-> FloatDiv(WavLen(wav), DurationDivisor)]

\* lines 249-254
BatchResult(files, t) ==
    JSONBody([batch_id |-> [prefix |-> "batch_", time |-> t],
              total_files |-> Len(files),
              files |-> files,
              message |-> "Batch synthesis completed. In production, this would return download URLs."])

BatchCall(q, i) == Call(q.texts[i + 1], q.language, q.voice, q.speed, q.pitch, q.volume)

BatchEnter(q, t) ==
    IF Len(q.texts) > MaxBatch
    THEN Raise(BatchExcept(HTTPException(400, << "Maximum 10 texts per batch request" >>)), t)
    ELSE IF Len(q.texts) = 0 THEN Reply(BatchResult(<<>>, t))
    ELSE Await(BatchCall(q, 0), 0, <<>>)

BatchResume(q, call, idx, files, h, t) ==
    LET out == generate_audio(call, h)
        appended == Append(files, BatchEntry(idx, call.text, out.wav))
    IN IF out.exc # NoExc THEN Raise(BatchExcept(out.exc), t)
       ELSE IF idx + 1 < Len(q.texts)
       THEN Await(BatchCall(q, idx + 1), idx + 1, appended)
       ELSE Reply(BatchResult(appended, t))

(* --------------------------- voice lookups ---------------------------- *)

NotFound(voice_id, language) ==
    HTTPException(404, << "Voice ", voice_id, " not found for language ", language >>)

\* the first voice of the registry with this language and id, <<>> if none
RECURSIVE FindVoice(_, _, _)
FindVoice(voices, language, voice_id) ==
    IF voices = <<>> THEN <<>>
    ELSE IF Head(voices).language = language /\ Head(voices).id = voice_id
         THEN << Head(voices) >>
         ELSE FindVoice(Tail(voices), language, voice_id)

get_voices_by_language(q, voices, t) ==
    LET language_voices == FilterLanguage(voices, q.language)
    IN IF language_voices = <<>>
       THEN Raise(HTTPException(404, << "No voices available for language: ", q.language >>), t)
       ELSE Reply(JSONBody([voices |-> language_voices]))

get_voice(q, voices, t) ==
    LET found == FindVoice(voices, q.language, q.voice)
    IN IF found = <<>> THEN Raise(NotFound(q.voice, q.language), t)
       ELSE Reply(JSONBody(found[1]))

(* ---------------------------- preview_voice --------------------------- *)

PreviewExcept(e) == HTTPException(500, << "Preview failed: " >> \o StrExc(e))

PreviewEnter(q, voices, t) ==
    IF FindVoice(voices, q.language, q.voice) = <<>>
    THEN Raise(PreviewExcept(NotFound(q.voice, q.language)), t)
    ELSE Await(Call(q.text, q.language, q.voice, 100, 100, 80), 0, <<>>)

PreviewResume(q, call, h, t) ==
    LET out == generate_audio(call, h)
    IN IF out.exc # NoExc THEN Raise(PreviewExcept(out.exc), t)
       ELSE Reply(StreamingResponse(out.wav,
                [content_disposition |-> [prefix |-> "attachment; filename=preview_",
                                          voice |-> q.voice, suffix |-> ".wav"],
                 x_voice |-> q.voice,
                 x_language |-> q.language,
                 x_text |-> q.text]))

(* ------------------------------ dispatch ------------------------------ *)

\* a handler from its entry to its first await, or to its response
Enter(q, voices, t) ==
    CASE q.endpoint = "synthesize" -> SynthEnter(q, voices, t)
      [] q.endpoint = "batch" -> BatchEnter(q, t)
      [] q.endpoint = "preview" -> PreviewEnter(q, voices, t)
      [] q.endpoint = "get_voice" -> get_voice(q, voices, t)
      [] q.endpoint = "get_voices_by_language" -> get_voices_by_language(q, voices, t)

\* a handler from the end of the sleep to its next await, or to its response
Resume(q, call, idx, files, h, t) ==
    CASE q.endpoint = "synthesize" -> SynthResume(q, call, h, t)
      [] q.endpoint = "batch" -> BatchResume(q, call, idx, files, h, t)
      [] q.endpoint = "preview" -> PreviewResume(q, call, h, t)

\* the handler of q running with no other request in flight
RECURSIVE RunFrom(_, _, _, _)
RunFrom(q, f, h, t) ==
    IF f.pc = "done" THEN f.resp
    ELSE RunFrom(q, Resume(q, f.call, f.idx, f.files, h, t), h, t)

RunAlone(q, voices, h, t) == RunFrom(q, Enter(q, voices, t), h, t)

(* ------------------------------- state -------------------------------- *)

VARIABLES
    AVAILABLE_VOICES,   \* the module-level voice list
    hashfn,             \* this process's hash() on strings (seeded at start-up)
    pc,                 \* per caller: "idle", "sleeping" or "done"
    req,                \* per caller: the request being handled
    call,               \* per caller: the arguments of the pending generate_audio
    idx,                \* per caller: the batch loop's i
    audio_files,        \* per caller: the batch handler's audio_files list
    resp                \* per caller: the response delivered

vars == << AVAILABLE_VOICES, hashfn, pc, req, call, idx, audio_files, resp >>

NoReq == Request("", "", <<>>, "", "", 0, 0, 0)

\* audio_files as one module-level list that every invocation appends to
RECURSIVE AllFiles(_, _)
AllFiles(lists, n) == IF n = 0 THEN <<>> ELSE AllFiles(lists, n - 1) \o lists[n]
AudioFilesShared(lists, r) == AllFiles(lists, Len(lists))

\* audio_files is a local of each synthesize_batch invocation (line 229)
AudioFilesOf(lists, r) == lists[r]

Init ==
    /\ AVAILABLE_VOICES = RegistryTable
    /\ hashfn \in [Texts -> HashValues]
    /\ pc = [r \in Callers |-> "idle"]
    /\ req = [r \in Callers |-> NoReq]
    /\ call = [r \in Callers |-> NoCall]
    /\ idx = [r \in Callers |-> 0]
    /\ audio_files = [r \in Callers |-> <<>>]
    /\ resp = [r \in Callers |-> NoResp]

\* the frame f becomes caller r's position
Install(r, f) ==
    /\ pc' = [pc EXCEPT ![r] = f.pc]
    /\ call' = [call EXCEPT ![r] = f.call]
    /\ idx' = [idx EXCEPT ![r] = f.idx]
    /\ audio_files' = [audio_files EXCEPT ![r] = f.files]
    /\ resp' = [resp EXCEPT ![r] = f.resp]

\* request q arrives from caller r; its handler runs to its first await
Receive(r, q, t) ==
    /\ pc[r] = "idle"
    /\ req' = [req EXCEPT ![r] = q]
    /\ Install(r, Enter(q, AVAILABLE_VOICES, t))
    /\ UNCHANGED << AVAILABLE_VOICES, hashfn >>

\* the sleep of caller r's generate_audio ends; the handler runs on
Wake(r, t) ==
    /\ pc[r] = "sleeping"
    /\ Install(r, Resume(req[r], call[r], idx[r], AudioFilesOf(audio_files, r), hashfn, t))
    /\ UNCHANGED << AVAILABLE_VOICES, hashfn, req >>

\* caller r is finished with its response
Release(r) ==
    /\ pc[r] = "done"
    /\ req' = [req EXCEPT ![r] = NoReq]
    /\ Install(r, Frame("idle", NoCall, 0, <<>>, NoResp))
    /\ UNCHANGED << AVAILABLE_VOICES, hashfn >>

\* the process is restarted: the module is loaded again, hash() is seeded
\* again, handlers in flight are lost, delivered responses stay delivered
Restart ==
    /\ AVAILABLE_VOICES' = RegistryTable
    /\ hashfn' \in [Texts -> HashValues]
    /\ hashfn' # hashfn
    /\ pc' = [r \in Callers |-> IF pc[r] = "done" THEN "done" ELSE "idle"]
    /\ req' = [r \in Callers |-> IF pc[r] = "done" THEN req[r] ELSE NoReq]
    /\ call' = [r \in Callers |-> NoCall]
    /\ idx' = [r \in Callers |-> 0]
    /\ audio_files' = [r \in Callers |-> <<>>]
    /\ UNCHANGED resp

Step(rs, qs) ==
    \/ \E r \in rs, q \in qs, t \in Times : Receive(r, q, t)
    \/ \E r \in rs, t \in Times : Wake(r, t)
    \/ \E r \in rs : Release(r)
    \/ Restart

\* one caller, every kind of request
Next == Step({1}, Requests)
Spec == Init /\ [][Next]_vars

\* every caller, requests interleaved at the sleeps
NextConc == Step(Callers, ConcRequests)
SpecConc == Init /\ [][NextConc]_vars

(* ============================ properties ============================== *)

\* the voice id is registered under the language (section 4.2, step 1)
Registered(language, voice_id) ==
    \E k \in DOMAIN RegistryTable :
        RegistryTable[k].language = language /\ RegistryTable[k].id = voice_id

SpeedOK(x) == x >= 50 /\ x <= 200
PitchOK(x) == x >= 50 /\ x <= 200
VolumeOK(x) == x >= 10 /\ x <= 100

\* the request passes the validator of section 4.2
ValidRequest(q) ==
    Registered(q.language, q.voice) /\ SpeedOK(q.speed) /\ PitchOK(q.pitch) /\ VolumeOK(q.volume)

Handled(r, endpoint) == pc[r] = "done" /\ req[r].endpoint = endpoint

\* C1: every synthesize request with an unregistered voice or an out-of-range
\* speed, pitch or volume is answered with status 400 in the error envelope;
\* a validation failure is never answered with 500.
C1_ValidationFailureIs400 ==
    \A r \in Callers :
        Handled(r, "synthesize") /\ ~ValidRequest(req[r])
            => /\ resp[r].status_code = 400
               /\ resp[r].content.status_code = 400

\* C2: a batch request with more than 10 texts is answered with status 400
\* and a message containing "Maximum 10", and no audio is generated for it.
C2_BatchTooLargeIs400 ==
    \A r \in Callers :
        req[r].endpoint = "batch" /\ Len(req[r].texts) > 10
            => /\ pc[r] # "sleeping"
               /\ pc[r] = "done"
                    => /\ resp[r].status_code = 400
                       /\ \E k \in DOMAIN resp[r].content.error :
                            resp[r].content.error[k] = "Maximum 10 texts per batch request"

\* C3: a lookup that finds nothing is answered with 404, for
\* get_voices_by_language (a language without voices, "es" included), for
\* get_voice and for preview_voice (an unregistered pair); and get_voice of
\* a registered pair returns the voice with that id and language.
C3_LookupMissIs404 ==
    \A r \in Callers :
        /\ Handled(r, "get_voices_by_language")
             /\ (\A k \in DOMAIN RegistryTable : RegistryTable[k].language # req[r].language)
             => resp[r].status_code = 404
        /\ Handled(r, "get_voice") /\ ~Registered(req[r].language, req[r].voice)
             => resp[r].status_code = 404
        /\ Handled(r, "preview") /\ ~Registered(req[r].language, req[r].voice)
             => resp[r].status_code = 404
        /\ Handled(r, "get_voice") /\ Registered(req[r].language, req[r].voice)
             => /\ resp[r].status_code = 200
                /\ resp[r].content.id = req[r].voice
                /\ resp[r].content.language = req[r].language

\* C4: generate_audio is only ever called with validated parameters: a
\* registered voice, speed and pitch in [0.5, 2.0], volume in [0.1, 1.0].
C4_GenerateOnlyValidated ==
    \A r \in Callers :
        pc[r] = "sleeping"
            => /\ Registered(call[r].language, call[r].voice)
               /\ SpeedOK(call[r].speed) /\ PitchOK(call[r].pitch) /\ VolumeOK(call[r].volume)

\* the check section 4.2 reports for an invalid request: the first to fail
\* in the order voice, speed, pitch, volume
FirstFailing(q) ==
    CASE ~Registered(q.language, q.voice) -> "voice"
      [] Registered(q.language, q.voice) /\ ~SpeedOK(q.speed) -> "speed"
      [] Registered(q.language, q.voice) /\ SpeedOK(q.speed) /\ ~PitchOK(q.pitch) -> "pitch"
      [] OTHER -> "volume"

\* the check an error message names
Names(error, check) ==
    \E k \in DOMAIN error :
        \/ check = "voice" /\ error[k] = "' not available for language '"
        \/ check = "speed" /\ error[k] = "Speed must be between 0.5 and 2.0"
        \/ check = "pitch" /\ error[k] = "Pitch must be between 0.5 and 2.0"
        \/ check = "volume" /\ error[k] = "Volume must be between 0.1 and 1.0"

\* C5: synthesize reaches audio generation exactly when the voice is
\* registered under the language and speed, pitch, volume are within their
\* inclusive bounds; otherwise the error names the first failing check in
\* the order voice, speed, pitch, volume, and no other.
C5_SynthesizeGate ==
    \A r \in Callers :
        req[r].endpoint = "synthesize" /\ pc[r] # "idle"
            => /\ (pc[r] = "sleeping" \/ resp[r].status_code = 200) <=> ValidRequest(req[r])
               /\ pc[r] = "done" /\ ~ValidRequest(req[r])
                    => \A c \in {"voice", "speed", "pitch", "volume"} :
                          Names(resp[r].content.error, c) <=> c = FirstFailing(req[r])

\* two checks fail at once (speed and pitch, the voice being registered)
C5_Witness ==
    \E r \in Callers :
        /\ Handled(r, "synthesize")
        /\ Registered(req[r].language, req[r].voice)
        /\ req[r].speed = 49 /\ req[r].pitch = 201
        /\ Names(resp[r].content.error, "speed")

(* ------------------------- reading a WAV file ------------------------- *)

U16At(wav, off) == WavByte(wav, off) + 256 * WavByte(wav, off + 1)
U32At(wav, off) ==
    WavByte(wav, off) + 256 * WavByte(wav, off + 1)
    + 65536 * WavByte(wav, off + 2) + 16777216 * WavByte(wav, off + 3)
TagAt(wav, off) == << WavByte(wav, off), WavByte(wav, off + 1),
                      WavByte(wav, off + 2), WavByte(wav, off + 3) >>

\* the i-th frame of the data chunk, read as a little-endian signed short
FrameAt(wav, i) ==
    LET u == U16At(wav, 44 + 2 * i) IN IF u >= 32768 THEN u - 65536 ELSE u

\* round(22050 * max(1.0, 0.1 * length)) = 2205 * max(10, length)
ExpectedSamples(text) == 2205 * (IF Len(text) > 10 THEN Len(text) ELSE 10)

\* the sample positions read back: the first ScanWindow and the last
Probes(count) == (0 .. (ScanWindow - 1)) \cup {count - 1}

\* the audio of a delivered 200 response of synthesize or preview
Audio(r) == resp[r].content.audio
HasAudio(r) ==
    /\ pc[r] = "done"
    /\ req[r].endpoint \in {"synthesize", "preview"}
    /\ resp[r].status_code = 200

\* C6: the number of PCM samples generate_audio produces for text T is
\* 2205 * max(10, length(T)), whatever the speed, pitch and volume.
C6_SampleCount ==
    \A r \in Callers :
        /\ HasAudio(r)
             => (WavLen(Audio(r)) - 44) \div 2 = ExpectedSamples(req[r].text)
        /\ Handled(r, "batch") /\ resp[r].status_code = 200
             => \A k \in DOMAIN resp[r].content.files :
                   (resp[r].content.files[k].audio_size - 44) \div 2
                       = ExpectedSamples(req[r].texts[k])

\* a text longer than 10 characters generated at a speed other than 1.0
C6_Witness ==
    \E r \in Callers :
        /\ HasAudio(r)
        /\ Len(req[r].text) = 20
        /\ req[r].speed = 200
        /\ Audio(r).pcm.count = 44100

\* C7: a batch of n <= 10 texts with valid parameters is answered with
\* total_files = n and n entries in input order: entry i has index i, the
\* i-th text, the byte length of that text's audio and duration =
\* audio_size / 44100.
C7_BatchMetadata ==
    \A r \in Callers :
        Handled(r, "batch") /\ Len(req[r].texts) <= 10 /\ ValidRequest(req[r])
            => LET files == resp[r].content.files
                   n == Len(req[r].texts)
               IN /\ resp[r].status_code = 200
                  /\ resp[r].content.total_files = n
                  /\ Len(files) = n
                  /\ \A i \in 0 .. (n - 1) :
                        /\ files[i + 1].index = i
                        /\ files[i + 1].text = req[r].texts[i + 1]
                        /\ files[i + 1].audio_size
                              = 44 + 2 * ExpectedSamples(req[r].texts[i + 1])
                        /\ files[i + 1].duration.num * 44100
                              = files[i + 1].audio_size * files[i + 1].duration.den

\* a batch of three texts of different lengths has been answered
C7_Witness ==
    \E r \in Callers :
        /\ Handled(r, "batch")
        /\ ValidRequest(req[r])
        /\ Len(req[r].texts) = 3
        /\ resp[r].content.total_files = 3
        /\ resp[r].content.files[1].audio_size # resp[r].content.files[2].audio_size

\* C8: the bytes of a valid request's audio are a WAV file: RIFF/WAVE tags,
\* PCM format, 1 channel, 16 bits, rate 22050, byte rate 44100, block align
\* 2, data size 2 x samples, chunk size 36 + data size, then the samples as
\* little-endian shorts in generation order; the length is 44 + 2 x samples
\* and X-Duration is that length / 44100.
C8_WavContainer ==
    \A r \in Callers :
        Handled(r, "synthesize") /\ ValidRequest(req[r])
            => LET wav == Audio(r)
                   n == ExpectedSamples(req[r].text)
                   d == resp[r].headers.x_duration.str_of
               IN /\ resp[r].status_code = 200
                  /\ TagAt(wav, 0) = << 82, 73, 70, 70 >>
                  /\ U32At(wav, 4) = 36 + 2 * n
                  /\ TagAt(wav, 8) = << 87, 65, 86, 69 >>
                  /\ TagAt(wav, 12) = << 102, 109, 116, 32 >>
                  /\ U32At(wav, 16) = 16
                  /\ U16At(wav, 20) = 1
                  /\ U16At(wav, 22) = 1
                  /\ U32At(wav, 24) = 22050
                  /\ U32At(wav, 28) = 44100
                  /\ U16At(wav, 32) = 2
                  /\ U16At(wav, 34) = 16
                  /\ TagAt(wav, 36) = << 100, 97, 116, 97 >>
                  /\ U32At(wav, 40) = 2 * n
                  /\ WavLen(wav) = 44 + 2 * n
                  /\ \A i \in Probes(n) :
                        /\ FrameAt(wav, i) = Sample(wav.pcm, i)
                        /\ FrameAt(wav, i) >= 0 - 32768 /\ FrameAt(wav, i) <= 32767
                  /\ d.num * 44100 = WavLen(wav) * d.den

\* a valid request's audio holds a negative and a positive sample
C8_Witness ==
    \E r \in Callers :
        /\ Handled(r, "synthesize") /\ ValidRequest(req[r])
        /\ resp[r].status_code = 200
        /\ \E i, j \in Probes(Audio(r).pcm.count) :
              FrameAt(Audio(r), i) < 0 /\ FrameAt(Audio(r), j) > 255

\* C9: two runs of generate_audio on the same inputs produce the same PCM
\* buffer, whatever process runs them: the frequency depends on the text
\* alone, not on the hash seed of the process.
C9_Deterministic ==
    \A r1, r2 \in Callers :
        HasAudio(r1) /\ HasAudio(r2) /\ req[r1] = req[r2]
            => Audio(r1) = Audio(r2)

\* C10: requests are independent: no step changes AVAILABLE_VOICES, and a
\* response that becomes available is the response its request gets when
\* it is the only one in flight.
C10_Independent ==
    [][ /\ AVAILABLE_VOICES' = AVAILABLE_VOICES
        /\ \A r \in Callers :
              pc[r] # "done" /\ pc'[r] = "done"
                  => \E t \in Times :
                        resp'[r] = RunAlone(req'[r], AVAILABLE_VOICES, hashfn, t) ]_vars

\* a batch was answered while another caller's request sat in its sleep
C10_Witness ==
    \E r1, r2 \in Callers :
        /\ r1 # r2
        /\ Handled(r1, "batch") /\ resp[r1].status_code = 200
        /\ resp[r1].content.total_files = 2
        /\ pc[r2] = "sleeping" /\ req[r2].endpoint = "batch" /\ idx[r2] = 1

====
